---- MODULE Spec2Model ----
(***************************************************************************)
(* A model of Challenge_1a/process_pdfs.py: the typography profiler        *)
(* (analyze_font_statistics), the classifier (classify_text_type,          *)
(* _process_text_block, _process_image_block), the document extractor      *)
(* (extract_pdf_structure) and the batch orchestrator (process_single_pdf, *)
(* process_pdfs).                                                          *)
(*                                                                         *)
(* Three specifications share the variables:                               *)
(*   SpecPure     the pure functions applied to inputs drawn in Init;      *)
(*   SpecExtract  one run of extract_pdf_structure on one document, the    *)
(*                decoder (PyMuPDF) free to raise at each of its calls;    *)
(*   Spec         one run of process_pdfs over the discovered documents.   *)
(*                                                                         *)
(* Numbers: span sizes are naturals; the mean of the sampled sizes and the *)
(* thresholds derived from it are exact rationals [num, den], compared by  *)
(* cross multiplication (for the sizes of this model the comparisons agree *)
(* with the code's double arithmetic).  A text is a sequence of            *)
(* characters, " " standing for any whitespace.                            *)
(***************************************************************************)
EXTENDS Integers, Sequences, FiniteSets, TLC

VARIABLES
    mode,           \* which specification runs: "pure", "extract", "batch"
    \* ---- SpecPure
    pure_in,        \* the inputs of the pure functions
    pure_out,       \* their results ("none" before the call)
    \* ---- SpecExtract: extract_pdf_structure
    doc,            \* the document as the decoder exposes it
    pc,             \* position in extract_pdf_structure
    page_num,       \* 0-based index of the page loop
    font_stats,     \* the local font_stats
    result,         \* the local result dict
    ret,            \* the value returned ("none" before the return)
    log,            \* what logger wrote, in order
    \* ---- Spec: process_pdfs
    pdf_files,      \* the discovered documents (their serialization outcome)
    cpu_count,      \* os.cpu_count(), 0 for None
    main,           \* position of process_pdfs
    max_workers,    \* the local max_workers
    success_count,  \* the local success_count
    pool,           \* state of the ProcessPoolExecutor
    futures,        \* the futures list: state of each submitted task
    idx,            \* index of the loop process_pdfs is in
    seq_task,       \* the process_single_pdf call running in the main process
    files,          \* output_dir: chunks written to <stem>.json, "absent" if none
    outcomes,       \* per document: the success and failure lines logged
    report          \* the final "successes/total" line

pure_vars    == <<pure_in, pure_out>>
extract_vars == <<doc, pc, page_num, font_stats, result, ret, log>>
batch_vars   == <<pdf_files, cpu_count, main, max_workers, success_count, pool,
                  futures, idx, seq_task, files, outcomes, report>>
vars == <<mode, pure_in, pure_out, doc, pc, page_num, font_stats, result, ret, log,
          pdf_files, cpu_count, main, max_workers, success_count, pool,
          futures, idx, seq_task, files, outcomes, report>>

----------------------------------------------------------------------------
(* Bounds of the model *)

\* largest span size drawn for classify_text_type
MaxSize == 20
\* longest sample of span sizes drawn for the font statistics of SpecPure
MaxSample == 2
\* most spans in the text block drawn for _process_text_block
MaxSpans == 2
\* most pages of a document, besides the padding pages
MaxPages == 2
\* most blocks of a document
MaxBlocks == 3
\* most decoder failures injected into one extraction
MaxFaults == 2
\* most discovered documents
MaxDocs == 2
\* largest os.cpu_count()
MaxCpu == 5
\* chunks json.dump writes for one result
Chunks == 2

(* Program constants *)

\* analyze_font_statistics(doc, sample_pages = 5)
SamplePages == 5
\* span["flags"] & 16
BoldFlag == 16
\* span["flags"] & 2
ItalicFlag == 2
\* min(4, os.cpu_count() or 1)
WorkerCap == 4

----------------------------------------------------------------------------
(* Helpers: sequences, texts, rationals *)

Min(a, b) == IF a < b THEN a ELSE b

RECURSIVE SumSeq(_)
SumSeq(s) == IF s = <<>> THEN 0 ELSE Head(s) + SumSeq(Tail(s))

RECURSIVE MaxSeq(_)
MaxSeq(s) == IF Len(s) = 1 THEN Head(s)
             ELSE LET m == MaxSeq(Tail(s)) IN IF Head(s) > m THEN Head(s) ELSE m

RECURSIVE Flatten(_)
Flatten(ss) == IF ss = <<>> THEN <<>> ELSE Head(ss) \o Flatten(Tail(ss))

SeqsUpTo(S, n) == UNION {[1..k -> S] : k \in 0..n}

IsPrefix(s, t) == Len(s) <= Len(t) /\ SubSeq(t, 1, Len(s)) = s

\* flags & bit, for bit a power of two
HasFlag(flags, bit) == (flags \div bit) % 2 = 1

\* str.strip()
RECURSIVE LStrip(_)
LStrip(t) == IF t # <<>> /\ Head(t) = " " THEN LStrip(Tail(t)) ELSE t

RECURSIVE RStrip(_)
RStrip(t) == IF t # <<>> /\ t[Len(t)] = " " THEN RStrip(SubSeq(t, 1, Len(t) - 1)) ELSE t

Strip(t) == RStrip(LStrip(t))

\* " ".join(parts)
RECURSIVE Join(_)
Join(parts) == IF parts = <<>> THEN <<>>
               ELSE IF Len(parts) = 1 THEN Head(parts)
               ELSE Head(parts) \o <<" ">> \o Join(Tail(parts))

\* exact rationals
Rat(n, d) == [num |-> n, den |-> d]
RatScale(r, n, d) == [num |-> r.num * n, den |-> r.den * d]
RatLt(a, b) == a.num * b.den < b.num * a.den
RatGeq(a, b) == ~RatLt(a, b)

----------------------------------------------------------------------------
(* analyze_font_statistics: the statistics of a list of sampled sizes *)

\* the loop over the sampled pages: every span of every text block
SpansOfBlock(block) == IF block.type = 0 THEN Flatten(block.lines) ELSE <<>>

RECURSIVE SpansOfBlocks(_)
SpansOfBlocks(blocks) == IF blocks = <<>> THEN <<>>
                         ELSE SpansOfBlock(Head(blocks)) \o SpansOfBlocks(Tail(blocks))

SampledSpans(pages, sample_pages) ==
    LET n == Min(sample_pages, Len(pages))
    IN  Flatten([i \in 1..n |-> SpansOfBlocks(pages[i])])

DefaultStats == [avg_size |-> Rat(12, 1), heading_threshold |-> Rat(14, 1),
                 large_heading_threshold |-> Rat(16, 1)]

\* a call's outcome: a returned value, or a raised exception
Return(v) == [raised |-> FALSE, value |-> v]
Raise(e) == [raised |-> TRUE, value |-> e]

\* the statistics computed from a non-empty list of sampled spans
ComputedStats(spans) ==
    LET font_sizes == [i \in 1..Len(spans) |-> spans[i].size]
        bold == SelectSeq(spans, LAMBDA sp : HasFlag(sp.flags, BoldFlag))
        bold_sizes == [i \in 1..Len(bold) |-> bold[i].size]
        avg_size == Rat(SumSeq(font_sizes), Len(font_sizes))
    IN  [avg_size |-> avg_size, max_size |-> MaxSeq(font_sizes),
         heading_threshold |-> RatScale(avg_size, 12, 10),
         large_heading_threshold |-> RatScale(avg_size, 15, 10),
         bold_sizes |-> bold_sizes]

\* analyze_font_statistics without its "if not font_sizes" guard: sum / len divides by 0
StatsWithoutEmptyGuard(spans) ==
    IF Len(spans) = 0 THEN Raise("ZeroDivisionError") ELSE Return(ComputedStats(spans))

\* the outcome of analyze_font_statistics once the sampled spans are collected
StatsOfSpans(spans) ==
    IF spans = <<>> THEN Return(DefaultStats) ELSE Return(ComputedStats(spans))

----------------------------------------------------------------------------
(* classify_text_type *)

ClassifyNoBoldRule(span, stats) ==
    IF RatGeq(Rat(span.size, 1), stats.large_heading_threshold) THEN <<"heading", 1>>
    ELSE IF RatGeq(Rat(span.size, 1), stats.heading_threshold) THEN <<"heading", 2>>
    ELSE IF RatLt(Rat(span.size, 1), RatScale(stats.avg_size, 8, 10)) THEN <<"footnote", 0>>
    ELSE <<"paragraph", 0>>

classify_text_type(span, stats) ==
    LET size == Rat(span.size, 1)
        is_bold == HasFlag(span.flags, BoldFlag)
    IN  IF RatGeq(size, stats.large_heading_threshold) THEN <<"heading", 1>>
        ELSE IF \/ RatGeq(size, stats.heading_threshold)
                \/ (RatLt(stats.avg_size, size) /\ is_bold) THEN <<"heading", 2>>
        ELSE IF RatLt(size, RatScale(stats.avg_size, 8, 10)) THEN <<"footnote", 0>>
        ELSE <<"paragraph", 0>>

----------------------------------------------------------------------------
(* _process_text_block and _process_image_block *)

\* the state of the scan before the first span
ScanStart == [parts |-> <<>>, primary_font |-> "None", primary_size |-> 0,
              primary_flags |-> 0]

ScanSpanLastWins(acc, span) ==
    LET text == Strip(span.text)
    IN  IF text = <<>> THEN acc
        ELSE IF span.size >= acc.primary_size
             THEN [parts |-> Append(acc.parts, text), primary_font |-> span.font,
                   primary_size |-> span.size, primary_flags |-> span.flags]
             ELSE [acc EXCEPT !.parts = Append(@, text)]

\* the body of the inner loop, for one span
ScanSpan(acc, span) ==
    LET text == Strip(span.text)
    IN  IF text = <<>> THEN acc
        ELSE IF span.size > acc.primary_size
             THEN [parts |-> Append(acc.parts, text), primary_font |-> span.font,
                   primary_size |-> span.size, primary_flags |-> span.flags]
             ELSE [acc EXCEPT !.parts = Append(@, text)]

RECURSIVE ScanSpans(_, _)
ScanSpans(acc, spans) ==
    IF spans = <<>> THEN acc ELSE ScanSpans(ScanSpan(acc, Head(spans)), Tail(spans))

\* the outer loop, over the lines of the block
RECURSIVE ScanLines(_, _)
ScanLines(acc, lines) ==
    IF lines = <<>> THEN acc ELSE ScanLines(ScanSpans(acc, Head(lines)), Tail(lines))

\* _process_text_block without the two "return" guards on empty text
TextBlockWithoutEmptyGuard(block, page, stats, sections) ==
    LET acc == ScanLines(ScanStart, block.lines)
        block_text == Strip(Join(acc.parts))
        cls == classify_text_type([text |-> block_text, size |-> acc.primary_size,
                                   flags |-> acc.primary_flags,
                                   font |-> acc.primary_font], stats)
    IN  Append(sections,
               [type |-> cls[1], content |-> block_text, page |-> page,
                bbox |-> block.bbox,
                font |-> [name |-> IF acc.primary_font \in {"None", ""}
                                   THEN "unknown" ELSE acc.primary_font,
                          size |-> acc.primary_size, flags |-> acc.primary_flags,
                          color |-> 0]])

\* the sections list after _process_text_block(block, page, font_stats, result)
process_text_block(block, page, stats, sections) ==
    LET acc == ScanLines(ScanStart, block.lines)
        block_text == Strip(Join(acc.parts))
        primary_span == [text |-> block_text, size |-> acc.primary_size,
                         flags |-> acc.primary_flags, font |-> acc.primary_font]
        cls == classify_text_type(primary_span, stats)
        section == [type |-> cls[1], content |-> block_text, page |-> page,
                    bbox |-> block.bbox,
                    font |-> [name |-> IF acc.primary_font \in {"None", ""}
                                       THEN "unknown" ELSE acc.primary_font,
                              size |-> acc.primary_size, flags |-> acc.primary_flags,
                              color |-> 0]]
    IN  IF acc.parts = <<>> THEN sections
        ELSE IF block_text = <<>> THEN sections
        ELSE IF cls[1] = "heading" /\ cls[2] > 0
             THEN Append(sections, section @@ [level |-> cls[2]])
             ELSE Append(sections, section)

\* the sections list after _process_image_block(block, page, result)
process_image_block(block, page, sections) ==
    Append(sections,
           [type |-> "image",
            content |-> <<"[Image: width=", block.width, ", height=", block.height, "]">>,
            page |-> page, bbox |-> block.bbox,
            font |-> [name |-> "image", size |-> 0, flags |-> 0, color |-> 0]])

\* the dispatch on block["type"] in the page loop
process_block(block, page, stats, sections) ==
    IF block.type = 0 THEN process_text_block(block, page, stats, sections)
    ELSE IF block.type = 1 THEN process_image_block(block, page, sections)
    ELSE sections

----------------------------------------------------------------------------
(* Values of the variables a specification does not use *)

NoValue == [none |-> TRUE]

IdlePure == pure_in = NoValue /\ pure_out = NoValue

IdleExtract ==
    /\ doc = NoValue /\ pc = "idle" /\ page_num = 0 /\ font_stats = NoValue
    /\ result = NoValue /\ ret = NoValue /\ log = <<>>

IdleBatch ==
    /\ pdf_files = <<>> /\ cpu_count = 0 /\ main = "idle" /\ max_workers = 0
    /\ success_count = 0 /\ pool = "none" /\ futures = <<>> /\ idx = 0
    /\ seq_task = [at |-> "idle", doc |-> 0] /\ files = <<>> /\ outcomes = <<>>
    /\ report = NoValue

----------------------------------------------------------------------------
(* SpecPure: classify_text_type and the block processors on drawn inputs *)

\* a span of the given size, as the profiler reads it
SampleSpan(size) == [text |-> <<"a">>, size |-> size, flags |-> 0, font |-> "F"]

SampleSizes == {5, 10, 15}

\* the sampled spans the statistics are computed from
Samples(n) == {[i \in DOMAIN s |-> SampleSpan(s[i])] : s \in SeqsUpTo(SampleSizes, n)}

ClassifySpans == [text : {<<"a">>}, size : 0..MaxSize,
                  flags : {0, ItalicFlag, BoldFlag, BoldFlag + ItalicFlag}, font : {"F"}]

\* font and style flags of the drawn spans
BlockStyles == {[font |-> "F", flags |-> 0], [font |-> "G", flags |-> BoldFlag]}

BlockSpans == {[text |-> t, size |-> sz, flags |-> st.flags, font |-> st.font] :
                   t \in {<<" ">>, <<" ", "a">>}, sz \in {0, 10, 12}, st \in BlockStyles}

BBox == <<0, 0, 1, 1>>

\* text blocks of up to MaxSpans spans, on one line or split over two
TextBlocks ==
    {[type |-> 0, bbox |-> BBox,
      lines |-> IF c = 0 THEN <<ss>> ELSE <<SubSeq(ss, 1, c), SubSeq(ss, c + 1, Len(ss))>>] :
        <<ss, c>> \in {x \in SeqsUpTo(BlockSpans, MaxSpans) \X (0..MaxSpans) : x[2] <= Len(x[1])}}

ImageBlock == [type |-> 1, bbox |-> BBox, width |-> 3, height |-> 4]

\* a section collected before the block is processed
PriorSection == [type |-> "paragraph", content |-> <<"p">>, page |-> 1, bbox |-> BBox,
                 font |-> [name |-> "F", size |-> 10, flags |-> 0, color |-> 0]]

PureInputs ==
    {[op |-> "classify", span |-> sp, sample |-> sm] :
        sp \in ClassifySpans, sm \in Samples(MaxSample)}
    \cup
    {[op |-> "block", block |-> b, sample |-> sm, sections |-> secs] :
        b \in TextBlocks \cup {ImageBlock}, sm \in {<<>>, <<SampleSpan(10)>>},
        secs \in {<<>>, <<PriorSection>>}}

InitPure ==
    /\ mode = "pure"
    /\ pure_in \in PureInputs
    /\ pure_out = NoValue
    /\ IdleExtract
    /\ IdleBatch

\* classify_text_type(span, font_stats), font_stats as analyze_font_statistics returns it
Classify ==
    /\ mode = "pure" /\ pure_in.op = "classify" /\ pure_out = NoValue
    /\ pure_out' = [value |-> classify_text_type(pure_in.span,
                                                  StatsOfSpans(pure_in.sample).value)]
    /\ UNCHANGED <<mode, pure_in, extract_vars, batch_vars>>

\* one block of a page handed to _process_text_block or _process_image_block
ProcessBlock ==
    /\ mode = "pure" /\ pure_in.op = "block" /\ pure_out = NoValue
    /\ pure_out' = [value |-> process_block(pure_in.block, 2,
                                             StatsOfSpans(pure_in.sample).value,
                                             pure_in.sections)]
    /\ UNCHANGED <<mode, pure_in, extract_vars, batch_vars>>

NextPure == Classify \/ ProcessBlock

SpecPure == InitPure /\ [][NextPure]_vars

----------------------------------------------------------------------------
(* SpecExtract: extract_pdf_structure on one document *)

\* blocks of the documents: an image, a paragraph-sized text, a text of blanks only
DocText == [type |-> 0, bbox |-> BBox,
            lines |-> <<<<[text |-> <<"a">>, size |-> 12, flags |-> 0, font |-> "F"]>>>>]
DocBlank == [type |-> 0, bbox |-> BBox,
             lines |-> <<<<[text |-> <<" ">>, size |-> 20, flags |-> 16, font |-> "G"]>>>>]
DocBlocks == {ImageBlock, DocText, DocBlank}

\* the sequences of n pages holding up to b blocks in all
RECURSIVE PageSeqs(_, _)
PageSeqs(n, b) ==
    IF n = 0 THEN {<<>>}
    ELSE UNION {{<<pg>> \o rest : rest \in PageSeqs(n - 1, b - Len(pg))} :
                    pg \in SeqsUpTo(DocBlocks, b)}

\* up to MaxPages pages holding up to MaxBlocks blocks in all
DocPages == UNION {PageSeqs(n, MaxBlocks) : n \in 0..MaxPages}

\* title and bookmark table: neither, or a title and a table of one full item (level,
\* title, page) and one short item
DocMeta == {[title |-> "", toc |-> <<>>],
            [title |-> "T", toc |-> << <<1, "T", 1>>, <<2, "U">> >>]}

\* the documents: pad empty pages (none, or as many as the profiler samples), then
\* the pages drawn
Docs ==
    {[name |-> "d.pdf", stem |-> "d", title |-> m.title, toc |-> m.toc, pad |-> pad,
      pages |-> [i \in 1..pad |-> <<>>] \o ps] :
        m \in DocMeta, pad \in {0, SamplePages}, ps \in DocPages}

\* an exception: where it was raised and what raised it
Exc(step, page, block, what) == [step |-> step, page |-> page, block |-> block, exc |-> what]

LogEntry(level, msg, e) == [level |-> level, msg |-> msg, page |-> e.page, e |-> e]

NoExc == Exc("none", 0, 0, "none")

\* the decoder failures injected so far
InjectedFaults == Cardinality({i \in 1..Len(log) : log[i].e.exc = "decoder"})

MayFail == InjectedFaults < MaxFaults

\* failures of the page loop are injected on the pages after the padding
MayFailOn(page) == MayFail /\ page > doc.pad

\* analyze_font_statistics(doc, sample_pages)
analyze_font_statistics(d, sample_pages) == StatsOfSpans(SampledSpans(d.pages, sample_pages))

\* the "minimal valid structure" the except branch returns
ErrorResult(d, e) ==
    [filename |-> d.name,
     metadata |-> [pageCount |-> 0],
     structure |-> [sections |-> <<>>, outline |-> <<>>],
     processing_info |-> [total_sections |-> 0, error |-> e]]

\* the result dict as initialised from the metadata
InitialResult(d) ==
    [filename |-> d.name,
     metadata |-> [title |-> IF d.title = "" THEN d.stem ELSE d.title,
                   pageCount |-> Len(d.pages)],
     structure |-> [sections |-> <<>>, outline |-> <<>>],
     processing_info |-> [total_sections |-> 0]]

\* the outline entries of the items of get_toc() that have at least 3 fields
OutlineOf(toc) ==
    LET full == SelectSeq(toc, LAMBDA item : Len(item) >= 3)
    IN  [i \in 1..Len(full) |-> [title |-> full[i][2], level |-> full[i][1],
                                  page |-> full[i][3]]]

\* sections after blocks 1..n of a page are processed, in order
RECURSIVE AfterBlocks(_, _, _, _, _)
AfterBlocks(blocks, n, page, stats, sections) ==
    IF n = 0 THEN sections
    ELSE process_block(blocks[n], page, stats,
                       AfterBlocks(blocks, n - 1, page, stats, sections))

OuterTryWithoutClose == {"open", "metadata", "profile", "outline", "load", "get_text", "block"}

\* the steps inside the function's try ... except Exception
OuterTrySteps == {"open", "metadata", "profile", "outline", "load", "get_text", "block",
                  "close"}

\* the steps inside the page loop's try ... except Exception
PageTrySteps == {"get_text", "block"}

\* the steps inside the outline's try ... except Exception
OutlineTrySteps == {"outline"}

InitExtract ==
    /\ mode = "extract"
    /\ doc \in Docs
    /\ pc = "open" /\ page_num = 0 /\ font_stats = NoValue
    /\ result = NoValue /\ ret = NoValue /\ log = <<>>
    /\ IdlePure
    /\ IdleBatch

\* an exception no handler of the loop took: the function's except branch returns
\* the minimal structure; outside the try it leaves the function
TopLevel(e) ==
    /\ IF e.step \in OuterTrySteps
       THEN /\ pc' = "done"
            /\ ret' = ErrorResult(doc, e)
            /\ log' = Append(log, LogEntry("error", "failed", e))
       ELSE /\ pc' = "raised"
            /\ UNCHANGED <<ret, log>>
    /\ UNCHANGED <<doc, page_num, font_stats, result>>

\* the page handler leaving the loop (break) where the code goes on (continue)
InPageLoopBreak(e, sections) ==
    IF e.step \in PageTrySteps
    THEN /\ log' = Append(log, LogEntry("error", "page", e))
         /\ result' = [result EXCEPT !.structure.sections = sections]
         /\ page_num' = Len(doc.pages)
         /\ UNCHANGED <<doc, pc, font_stats, ret>>
    ELSE /\ TopLevel(e)

\* an exception raised while a page is processed: sections holds what the page's
\* blocks appended before it
InPageLoop(e, sections) ==
    IF e.step \in PageTrySteps
    THEN /\ log' = Append(log, LogEntry("error", "page", e))
         /\ result' = [result EXCEPT !.structure.sections = sections]
         /\ page_num' = page_num + 1
         /\ UNCHANGED <<doc, pc, font_stats, ret>>
    ELSE /\ TopLevel(e)

\* fitz.open(str(pdf_path))
Open ==
    /\ mode = "extract" /\ pc = "open"
    /\ \/ /\ pc' = "profile"
          /\ UNCHANGED <<doc, page_num, font_stats, result, ret, log>>
       \/ /\ MayFail
          /\ TopLevel(Exc("open", 0, 0, "decoder"))
    /\ UNCHANGED <<mode, pure_vars, batch_vars>>

\* font_stats = self.analyze_font_statistics(doc)
Profile ==
    /\ mode = "extract" /\ pc = "profile"
    /\ \/ LET r == analyze_font_statistics(doc, SamplePages)
          IN  IF r.raised
              THEN TopLevel(Exc("profile", 0, 0, r.value))
              ELSE /\ font_stats' = r.value
                   /\ pc' = "init_result"
                   /\ UNCHANGED <<doc, page_num, result, ret, log>>
       \/ /\ MayFail
          /\ Len(doc.pages) > 0
          /\ TopLevel(Exc("profile", 0, 0, "decoder"))
    /\ UNCHANGED <<mode, pure_vars, batch_vars>>

\* result = {...}: the metadata is read into the result
InitResult ==
    /\ mode = "extract" /\ pc = "init_result"
    /\ \/ /\ result' = InitialResult(doc)
          /\ pc' = "outline"
          /\ UNCHANGED <<doc, page_num, font_stats, ret, log>>
       \/ /\ MayFail
          /\ TopLevel(Exc("metadata", 0, 0, "decoder"))
    /\ UNCHANGED <<mode, pure_vars, batch_vars>>

\* the outline: doc.get_toc() and the loop over its items
Outline ==
    /\ mode = "extract" /\ pc = "outline"
    /\ \/ /\ result' = [result EXCEPT !.structure.outline = OutlineOf(doc.toc)]
          /\ UNCHANGED log
       \/ /\ MayFail
          /\ Exc("outline", 0, 0, "decoder").step \in OutlineTrySteps
          /\ log' = Append(log, LogEntry("warning", "outline", Exc("outline", 0, 0, "decoder")))
          /\ UNCHANGED result
    /\ pc' = "pages"
    /\ UNCHANGED <<doc, page_num, font_stats, ret>>
    /\ UNCHANGED <<mode, pure_vars, batch_vars>>

\* one iteration of the page loop: doc[page_num], get_text, the loop over the blocks
ProcessPage ==
    /\ mode = "extract" /\ pc = "pages" /\ page_num < Len(doc.pages)
    /\ LET page == page_num + 1
           blocks == doc.pages[page]
           sections == result.structure.sections
       IN  \/ /\ result' = [result EXCEPT !.structure.sections =
                                 AfterBlocks(blocks, Len(blocks), page, font_stats, sections)]
              /\ page_num' = page_num + 1
              /\ UNCHANGED <<doc, pc, font_stats, ret, log>>
           \/ /\ MayFailOn(page)
              /\ InPageLoop(Exc("load", page, 0, "decoder"), sections)
           \/ /\ MayFailOn(page)
              /\ InPageLoop(Exc("get_text", page, 0, "decoder"), sections)
           \/ /\ MayFailOn(page)
              /\ \E j \in 1..Len(blocks) :
                    InPageLoop(Exc("block", page, j, "decoder"),
                               AfterBlocks(blocks, j - 1, page, font_stats, sections))
    /\ UNCHANGED <<mode, pure_vars, batch_vars>>

\* after the loop: doc.close(), the processing info, return result
Finish ==
    /\ mode = "extract" /\ pc = "pages" /\ page_num = Len(doc.pages)
    /\ \/ /\ ret' = [result EXCEPT !.processing_info.total_sections =
                                        Len(result.structure.sections)]
          /\ log' = Append(log, LogEntry("info", "success", NoExc))
          /\ pc' = "done"
          /\ UNCHANGED <<doc, page_num, font_stats, result>>
       \/ /\ MayFail
          /\ TopLevel(Exc("close", 0, 0, "decoder"))
    /\ UNCHANGED <<mode, pure_vars, batch_vars>>

NextExtract == Open \/ Profile \/ InitResult \/ Outline \/ ProcessPage \/ Finish

SpecExtract == InitExtract /\ [][NextExtract]_vars

----------------------------------------------------------------------------
(* Spec: process_pdfs over the discovered documents *)

\* what happens when a document's result is serialized: the dump completes, open()
\* raises, or json.dump raises after its first chunk
WritePlans == {"ok", "open_fails", "dump_fails"}

\* input_dir.glob("*.pdf"): the documents, with distinct stems
Discovered == UNION {[1..n -> [write : WritePlans]] : n \in 0..MaxDocs}

NumDocs == Len(pdf_files)

Idle == [at |-> "idle", doc |-> 0]

UncappedWorkers(cpu) == IF cpu = 0 THEN 1 ELSE cpu

\* min(4, os.cpu_count() or 1)
MaxWorkers(cpu) == Min(WorkerCap, IF cpu = 0 THEN 1 ELSE cpu)

\* one step of process_single_pdf on document d: at is its position, file the chunks
\* of <stem>.json on disk (-1: no file).  extract_pdf_structure returns the result,
\* open(output_file, "w") creates or truncates the file, json.dump writes it chunk by
\* chunk, then the success line is logged; an exception logs the failure line.
SinglePdfStep(d, at, file) ==
    CASE at = "extract" -> [at |-> "open", file |-> file, logged |-> "none"]
      [] at = "open" ->
            IF pdf_files[d].write = "open_fails"
            THEN [at |-> "failed", file |-> file, logged |-> "failed"]
            ELSE [at |-> "dump", file |-> 0, logged |-> "none"]
      [] at = "dump" ->
            IF pdf_files[d].write = "dump_fails" /\ file >= 1
            THEN [at |-> "failed", file |-> file, logged |-> "failed"]
            ELSE IF file < Chunks
            THEN [at |-> "dump", file |-> file + 1, logged |-> "none"]
            ELSE [at |-> "ok", file |-> file, logged |-> "ok"]

\* the log after a step that logged a success or failure line for document d
Logged(d, line) ==
    IF line = "none" THEN outcomes
    ELSE [outcomes EXCEPT ![d][line] = @ + 1]

Running == {i \in 1..Len(futures) : futures[i].st = "running"}

\* tasks of a broken pool whose future already holds BrokenProcessPool while the
\* worker that runs them has not been terminated yet
Doomed == {i \in 1..Len(futures) : futures[i].st = "doomed"}

\* tasks queued or still held by a live worker
Unfinished == {i \in 1..Len(futures) : futures[i].st \in {"pending", "running", "doomed"}}

ShutdownNoWait == TRUE

\* executor.__exit__ is shutdown(wait=True): it returns once the executor's manager
\* thread has ended, after every worker has finished or has been terminated
ShutdownReturns == Unfinished = {}

Init ==
    /\ mode = "batch"
    /\ pdf_files \in Discovered
    /\ cpu_count \in 0..MaxCpu
    /\ main = "start" /\ max_workers = 0 /\ success_count = 0
    /\ pool = "none" /\ futures = <<>> /\ idx = 0 /\ seq_task = Idle
    /\ files = [d \in 1..Len(pdf_files) |-> -1]
    /\ outcomes = [d \in 1..Len(pdf_files) |-> [ok |-> 0, failed |-> 0]]
    /\ report = NoValue
    /\ IdlePure
    /\ IdleExtract

\* process_pdfs up to the choice of the path
Start ==
    /\ mode = "batch" /\ main = "start"
    /\ IF NumDocs = 0
       THEN /\ main' = "done"
            /\ UNCHANGED <<max_workers, seq_task>>
       ELSE /\ max_workers' = MaxWorkers(cpu_count)
            /\ IF NumDocs = 1
               THEN main' = "single" /\ seq_task' = [at |-> "extract", doc |-> 1]
               ELSE main' = "pool_create" /\ UNCHANGED seq_task
    /\ UNCHANGED <<pdf_files, cpu_count, success_count, pool, futures, idx, files,
                   outcomes, report>>
    /\ UNCHANGED <<mode, pure_vars, extract_vars>>

\* a step of the process_single_pdf call running in the main process
SeqStep ==
    /\ mode = "batch" /\ seq_task.at \in {"extract", "open", "dump"}
    /\ LET d == seq_task.doc
           n == SinglePdfStep(d, seq_task.at, files[d])
       IN  /\ seq_task' = [seq_task EXCEPT !.at = n.at]
           /\ files' = [files EXCEPT ![d] = n.file]
           /\ outcomes' = Logged(d, n.logged)
    /\ UNCHANGED <<pdf_files, cpu_count, main, max_workers, success_count, pool,
                   futures, idx, report>>
    /\ UNCHANGED <<mode, pure_vars, extract_vars>>

\* the single file path: if process_single_pdf(...): success_count = 1
Single ==
    /\ mode = "batch" /\ main = "single" /\ seq_task.at \in {"ok", "failed"}
    /\ success_count' = IF seq_task.at = "ok" THEN 1 ELSE success_count
    /\ seq_task' = Idle
    /\ main' = "report"
    /\ UNCHANGED <<pdf_files, cpu_count, max_workers, pool, futures, idx, files,
                   outcomes, report>>
    /\ UNCHANGED <<mode, pure_vars, extract_vars>>

\* with ProcessPoolExecutor(max_workers=max_workers) as executor: the pool is set up,
\* or setting it up raises
CreatePool ==
    /\ mode = "batch" /\ main = "pool_create"
    /\ \/ pool' = "open" /\ main' = "submit" /\ idx' = 1
       \/ pool' = "failed" /\ main' = "fallback" /\ idx' = 1
    /\ UNCHANGED <<pdf_files, cpu_count, max_workers, success_count, futures, seq_task,
                   files, outcomes, report>>
    /\ UNCHANGED <<mode, pure_vars, extract_vars>>

\* executor.submit(process_single_pdf, pdf_file, output_dir) for the next document:
\* the task is queued; on a broken pool submit raises BrokenProcessPool and the
\* exception leaves the with block
Submit ==
    /\ mode = "batch" /\ main = "submit"
    /\ IF idx > NumDocs
       THEN main' = "collect" /\ idx' = 1 /\ UNCHANGED futures
       ELSE \/ /\ pool = "open"
               /\ futures' = Append(futures, [st |-> "pending", at |-> "extract"])
               /\ idx' = idx + 1
               /\ UNCHANGED main
            \/ /\ pool = "broken"
               /\ main' = "unwind"
               /\ UNCHANGED <<futures, idx>>
    /\ UNCHANGED <<pdf_files, cpu_count, max_workers, success_count, pool, seq_task,
                   files, outcomes, report>>
    /\ UNCHANGED <<mode, pure_vars, extract_vars>>

\* a pool worker takes the oldest queued task; the pool has max_workers workers
WorkerStart ==
    /\ mode = "batch" /\ pool = "open"
    /\ Cardinality(Running) < max_workers
    /\ \E i \in 1..Len(futures) :
          /\ futures[i].st = "pending"
          /\ \A j \in 1..(i - 1) : futures[j].st # "pending"
          /\ futures' = [futures EXCEPT ![i].st = "running"]
    /\ UNCHANGED <<pdf_files, cpu_count, main, max_workers, success_count, pool, idx,
                   seq_task, files, outcomes, report>>
    /\ UNCHANGED <<mode, pure_vars, extract_vars>>

\* a step of process_single_pdf in a pool worker; its return completes the future,
\* unless the pool broke meanwhile and the future already holds BrokenProcessPool
WorkerStep ==
    /\ mode = "batch" /\ pool \in {"open", "broken"}
    /\ \E i \in Running \cup Doomed :
          LET n == SinglePdfStep(i, futures[i].at, files[i])
              finished == n.at \in {"ok", "failed"}
          IN  /\ futures' = [futures EXCEPT ![i] =
                               [st |-> IF futures[i].st = "running"
                                       THEN (IF finished THEN "done" ELSE "running")
                                       ELSE (IF finished THEN "broken" ELSE "doomed"),
                                at |-> n.at]]
              /\ files' = [files EXCEPT ![i] = n.file]
              /\ outcomes' = Logged(i, n.logged)
    /\ UNCHANGED <<pdf_files, cpu_count, main, max_workers, success_count, pool, idx,
                   seq_task, report>>
    /\ UNCHANGED <<mode, pure_vars, extract_vars>>

\* a worker process dies while it runs a task: the executor marks the pool broken and
\* sets BrokenProcessPool on every unfinished future; the other workers keep running
\* their tasks until the executor terminates them
WorkerDies ==
    /\ mode = "batch" /\ pool = "open"
    /\ \E dead \in Running :
          futures' = [i \in 1..Len(futures) |->
                        IF futures[i].st = "done" THEN futures[i]
                        ELSE IF futures[i].st = "running" /\ i # dead
                        THEN [futures[i] EXCEPT !.st = "doomed"]
                        ELSE [futures[i] EXCEPT !.st = "broken"]]
    /\ pool' = "broken"
    /\ UNCHANGED <<pdf_files, cpu_count, main, max_workers, success_count, idx,
                   seq_task, files, outcomes, report>>
    /\ UNCHANGED <<mode, pure_vars, extract_vars>>

\* the executor of a broken pool terminates a worker that was still running a task
WorkerTerminated ==
    /\ mode = "batch" /\ pool = "broken"
    /\ \E i \in Doomed : futures' = [futures EXCEPT ![i].st = "broken"]
    /\ UNCHANGED <<pdf_files, cpu_count, main, max_workers, success_count, pool, idx,
                   seq_task, files, outcomes, report>>
    /\ UNCHANGED <<mode, pure_vars, extract_vars>>

\* for future in futures: if future.result(): success_count += 1; result() waits for
\* the future and raises what was set on it.  After the loop the with block ends.
Collect ==
    /\ mode = "batch" /\ main = "collect"
    /\ IF idx > NumDocs
       THEN /\ main' = "report"
            /\ pool' = "shutdown"
            /\ UNCHANGED <<success_count, idx>>
       ELSE /\ futures[idx].st \in {"done", "broken", "doomed"}
            /\ IF futures[idx].st = "done"
               THEN /\ success_count' = IF futures[idx].at = "ok"
                                         THEN success_count + 1 ELSE success_count
                    /\ idx' = idx + 1
                    /\ UNCHANGED main
               ELSE /\ main' = "unwind"
                    /\ UNCHANGED <<success_count, idx>>
            /\ UNCHANGED pool
    /\ UNCHANGED <<pdf_files, cpu_count, max_workers, futures, seq_task, files,
                   outcomes, report>>
    /\ UNCHANGED <<mode, pure_vars, extract_vars>>

\* the exception leaves the with block: __exit__ is shutdown(wait=True), which returns
\* once no submitted task is queued or running; then except Exception logs and the
\* sequential loop starts
Unwind ==
    /\ mode = "batch" /\ main = "unwind"
    /\ ShutdownReturns
    /\ main' = "fallback" /\ idx' = 1
    /\ pool' = IF pool = "open" THEN "shutdown" ELSE pool
    /\ UNCHANGED <<pdf_files, cpu_count, max_workers, success_count, futures, seq_task,
                   files, outcomes, report>>
    /\ UNCHANGED <<mode, pure_vars, extract_vars>>

\* for pdf_file in pdf_files: if process_single_pdf(...): success_count += 1
Fallback ==
    /\ mode = "batch" /\ main = "fallback"
    /\ IF idx > NumDocs
       THEN main' = "report" /\ UNCHANGED <<seq_task, success_count, idx>>
       ELSE IF seq_task = Idle
       THEN /\ seq_task' = [at |-> "extract", doc |-> idx]
            /\ UNCHANGED <<main, success_count, idx>>
       ELSE /\ seq_task.at \in {"ok", "failed"}
            /\ success_count' = IF seq_task.at = "ok"
                                 THEN success_count + 1 ELSE success_count
            /\ seq_task' = Idle
            /\ idx' = idx + 1
            /\ UNCHANGED main
    /\ UNCHANGED <<pdf_files, cpu_count, max_workers, pool, futures, files, outcomes,
                   report>>
    /\ UNCHANGED <<mode, pure_vars, extract_vars>>

\* logger.info("Processing complete: {success_count}/{len(pdf_files)} ...")
Report ==
    /\ mode = "batch" /\ main = "report"
    /\ report' = [successes |-> success_count, total |-> NumDocs]
    /\ main' = "done"
    /\ UNCHANGED <<pdf_files, cpu_count, max_workers, success_count, pool, futures,
                   idx, seq_task, files, outcomes>>
    /\ UNCHANGED <<mode, pure_vars, extract_vars>>

Next ==
    \/ Start \/ SeqStep \/ Single \/ CreatePool \/ Submit \/ WorkerStart
    \/ WorkerStep \/ WorkerDies \/ WorkerTerminated \/ Collect \/ Unwind \/ Fallback
    \/ Report

Spec == Init /\ [][Next]_vars

----------------------------------------------------------------------------
(* Claims on the pure functions, under SpecPure *)

ClassifyCalled == mode = "pure" /\ pure_in.op = "classify" /\ pure_out # NoValue

\* C1: classify_text_type returns heading 1 if size >= large_heading_threshold, else
\* heading 2 if size >= heading_threshold or (size > avg_size and bold), else footnote
\* if size < 0.8 * avg_size, else paragraph; the thresholds are 1.5 and 1.2 times the
\* mean of the sampled sizes (16, 14 and mean 12 with no sample).  With mean 10:
\* 16 -> heading 1, 13 -> heading 2, 11 bold -> heading 2, 11 -> paragraph,
\* 7 -> footnote.
C1_ClassifyPriority ==
    ClassifyCalled =>
        LET s == pure_in.span.size
            b == pure_in.span.flags \in {16, 18}
            n == Len(pure_in.sample)
            total == SumSeq([i \in 1..n |-> pure_in.sample[i].size])
            out == pure_out.value
            expected ==
                IF n = 0
                THEN IF s >= 16 THEN <<"heading", 1>>
                     ELSE IF s >= 14 \/ (s > 12 /\ b) THEN <<"heading", 2>>
                     ELSE IF 10 * s < 96 THEN <<"footnote", 0>>
                     ELSE <<"paragraph", 0>>
                ELSE IF 10 * s * n >= 15 * total THEN <<"heading", 1>>
                     ELSE IF 10 * s * n >= 12 * total \/ (s * n > total /\ b)
                          THEN <<"heading", 2>>
                     ELSE IF 10 * s * n < 8 * total THEN <<"footnote", 0>>
                     ELSE <<"paragraph", 0>>
        IN  /\ out = expected
            /\ (n = 1 /\ total = 10) =>
                   /\ (s = 16 => out = <<"heading", 1>>)
                   /\ (s = 13 => out = <<"heading", 2>>)
                   /\ (s = 11 /\ b => out = <<"heading", 2>>)
                   /\ (s = 11 /\ ~b => out = <<"paragraph", 0>>)
                   /\ (s = 7 => out = <<"footnote", 0>>)

\* the bold-escalation case: mean 10, a bold span of size 11 classified heading 2
C1_Witness ==
    /\ ClassifyCalled
    /\ pure_in.sample = <<SampleSpan(10)>>
    /\ pure_in.span.size = 11 /\ pure_in.span.flags = 16
    /\ pure_out.value = <<"heading", 2>>

\* a text block was processed and produced an element
TextBlockEmitted ==
    /\ mode = "pure" /\ pure_in.op = "block" /\ pure_in.block.type = 0
    /\ pure_out # NoValue
    /\ Len(pure_out.value) = Len(pure_in.sections) + 1

\* the earliest index among idxs whose span has the largest size among idxs
EarliestLargest(spans, idxs) ==
    CHOOSE i \in idxs : \A j \in idxs : \/ spans[j].size < spans[i].size
                                         \/ (spans[j].size = spans[i].size /\ i <= j)

\* the emitted element carries the descriptor of span p and p's classification
DescribedBy(e, p, stats) ==
    /\ e.font = [name |-> p.font, size |-> p.size, flags |-> p.flags, color |-> 0]
    /\ <<e.type, IF "level" \in DOMAIN e THEN e.level ELSE 0>> = classify_text_type(p, stats)

\* C10 as stated: the primary span of a text block that produces an element is the
\* earliest span, in line-then-span order, whose size is the maximum over all spans
\* of the block.
C10_PrimaryOverAllSpans ==
    TextBlockEmitted =>
        LET spans == Flatten(pure_in.block.lines)
            e == pure_out.value[Len(pure_out.value)]
        IN  DescribedBy(e, spans[EarliestLargest(spans, 1..Len(spans))],
                        StatsOfSpans(pure_in.sample).value)

\* C10 amended: the primary span is the earliest span whose size is the maximum over
\* the spans of the block whose trimmed text is not empty, when that maximum is
\* positive; a later span of equal size never replaces it.  When no such span has a
\* positive size the descriptor is the sentinel (name "unknown", size 0, flags 0).
C10_PrimaryOverNonBlankSpans ==
    TextBlockEmitted =>
        LET spans == Flatten(pure_in.block.lines)
            nonblank == {i \in 1..Len(spans) : Strip(spans[i].text) # <<>>}
            p == spans[EarliestLargest(spans, nonblank)]
            e == pure_out.value[Len(pure_out.value)]
            stats == StatsOfSpans(pure_in.sample).value
        IN  IF p.size > 0 THEN DescribedBy(e, p, stats)
            ELSE /\ e.font = [name |-> "unknown", size |-> 0, flags |-> 0, color |-> 0]
                 /\ e.type = classify_text_type([size |-> 0, flags |-> 0], stats)[1]

\* two non-blank spans of equal, largest size and different fonts: the first is kept
C10_Witness ==
    /\ TextBlockEmitted
    /\ LET spans == Flatten(pure_in.block.lines)
           e == pure_out.value[Len(pure_out.value)]
       IN  /\ Len(spans) = 2
           /\ Strip(spans[1].text) # <<>> /\ Strip(spans[2].text) # <<>>
           /\ spans[1].size = 12 /\ spans[2].size = 12
           /\ spans[1].font # spans[2].font /\ spans[1].flags # spans[2].flags
           /\ e.font.name = spans[1].font /\ e.font.flags = spans[1].flags

\* a block was processed by _process_text_block or _process_image_block
BlockProcessed == mode = "pure" /\ pure_in.op = "block" /\ pure_out # NoValue

\* the trimmed texts of the block's spans, concatenated
TrimmedText(block) ==
    LET spans == Flatten(block.lines)
    IN  Flatten([i \in DOMAIN spans |-> Strip(spans[i].text)])

\* C11: processing one block changes the sections sequence only by appending at its
\* end: the sequence before is a prefix of the sequence after; a text block whose
\* concatenated trimmed span text is empty appends nothing, a text block with text
\* appends exactly one element, and an image block appends exactly one element of
\* type image, whatever the font statistics.
C11_AppendOnly ==
    BlockProcessed =>
        LET before == pure_in.sections
            after == pure_out.value
            block == pure_in.block
        IN  /\ IsPrefix(before, after)
            /\ block.type = 0 /\ TrimmedText(block) = <<>> => after = before
            /\ block.type = 0 /\ TrimmedText(block) # <<>> => Len(after) = Len(before) + 1
            /\ block.type = 1 => /\ Len(after) = Len(before) + 1
                                 /\ after[Len(after)].type = "image"

\* a text block of two whitespace-only spans was processed after one section had
\* been collected, and the sequence is as it was
C11_Witness ==
    /\ BlockProcessed
    /\ pure_in.block.type = 0
    /\ Len(Flatten(pure_in.block.lines)) = 2
    /\ TrimmedText(pure_in.block) = <<>>
    /\ pure_in.sections = <<PriorSection>>
    /\ pure_out.value = <<PriorSection>>

----------------------------------------------------------------------------
(* Claims on extract_pdf_structure, under SpecExtract *)

Returned == mode = "extract" /\ pc = "done"

\* the function's except branch ran: "Failed to process" was logged
TopLevelFailure == \E i \in 1..Len(log) : log[i].msg = "failed"

\* the exceptions the page loop's handler logged
PageErrors == {log[i].e : i \in {k \in 1..Len(log) : log[k].msg = "page"}}

\* the sections a page's blocks produce, in order
PageSections(page, n) == AfterBlocks(doc.pages[page], n, page, font_stats, <<>>)

OnPage(sections, page) == SelectSeq(sections, LAMBDA sec : sec.page = page)

\* C2: extract_pdf_structure never raises; whatever step fails (open, metadata,
\* profiling, page load, block processing, close) it returns a result, and after a
\* top-level failure the result has pageCount 0, no sections, no outline,
\* total_sections 0 and the error in processing_info.
C2_NeverRaises ==
    /\ pc # "raised"
    /\ Returned =>
          /\ ret # NoValue
          /\ ret.filename = doc.name
          /\ TopLevelFailure <=> "error" \in DOMAIN ret.processing_info
          /\ TopLevelFailure =>
                /\ ret.metadata.pageCount = 0
                /\ ret.structure.sections = <<>>
                /\ ret.structure.outline = <<>>
                /\ ret.processing_info.total_sections = 0
                /\ ret.processing_info.error = log[Len(log)].e

\* doc.close() failed after sections and an outline were collected: the minimal
\* structure is returned
C2_Witness ==
    /\ Returned
    /\ TopLevelFailure
    /\ log[Len(log)].e.step = "close"
    /\ result.structure.sections # <<>>
    /\ result.structure.outline # <<>>
    /\ ret.structure.sections = <<>>
    /\ ret.metadata.pageCount = 0

\* C3 as stated: a failure while page k is processed (its load and the read of its
\* blocks included) removes no element collected from pages 1..k-1: they are all in
\* the returned result, in the same order.
C3_EarlierPagesKept ==
    Returned =>
        \A i \in 1..Len(log) :
            log[i].page > 0 =>
                \A n \in 1..Len(result.structure.sections) :
                    result.structure.sections[n].page < log[i].page =>
                        /\ n <= Len(ret.structure.sections)
                        /\ ret.structure.sections[n] = result.structure.sections[n]

\* C8 as stated: when a page fails during block iteration and nothing fails at the
\* top level, the result holds no element of that page, has no error field, keeps
\* pageCount, and holds the elements of every later page.
C8_FailingPageSkipped ==
    (Returned /\ ~TopLevelFailure) =>
        \A e \in PageErrors :
            /\ OnPage(ret.structure.sections, e.page) = <<>>
            /\ "error" \notin DOMAIN ret.processing_info
            /\ ret.metadata.pageCount = Len(doc.pages)
            /\ \A m \in (e.page + 1)..Len(doc.pages) :
                  (\A f \in PageErrors : f.page # m) =>
                      OnPage(ret.structure.sections, m) = PageSections(m, Len(doc.pages[m]))

\* C8 amended: when a page fails during block iteration, the failing block and the
\* blocks after it are skipped, while the elements of the page's earlier blocks stay
\* in the result; the failure is not fatal: when nothing fails at the top level the
\* result has no error field, keeps pageCount, and holds all the elements of every
\* later page that did not fail.
C8_FailingPageKeepsEarlierBlocks ==
    /\ mode = "extract" =>
          \A e \in PageErrors :
              /\ e.step \in {"get_text", "block"}
              /\ OnPage(result.structure.sections, e.page) =
                    PageSections(e.page, IF e.step = "block" THEN e.block - 1 ELSE 0)
    /\ (Returned /\ ~TopLevelFailure) =>
          /\ ret.structure.sections = result.structure.sections
          /\ \A e \in PageErrors :
                /\ "error" \notin DOMAIN ret.processing_info
                /\ ret.metadata.pageCount = Len(doc.pages)
                /\ \A m \in (e.page + 1)..Len(doc.pages) :
                      (\A f \in PageErrors : f.page # m) =>
                          OnPage(ret.structure.sections, m) =
                              PageSections(m, Len(doc.pages[m]))

\* the second block of page 1 failed after the first produced an element, and page 2
\* was still processed: the result holds the first block's element and page 2's
C8_Witness ==
    /\ Returned /\ ~TopLevelFailure
    /\ \E e \in PageErrors : e.step = "block" /\ e.page = 1 /\ e.block = 2
    /\ Len(doc.pages) = 2
    /\ OnPage(ret.structure.sections, 1) # <<>>
    /\ OnPage(ret.structure.sections, 2) # <<>>
    /\ ret.processing_info.total_sections = 2

\* no span on the pages the profiler samples
NoSampledSpan == mode = "extract" /\ SampledSpans(doc.pages, 5) = <<>>

\* no call of the decoder raised
NoDecoderFault == \A i \in 1..Len(log) : log[i].e.exc # "decoder"

\* C9: when the sampled pages (the first min(5, page_count)) hold no span, a document
\* of no pages included, analyze_font_statistics returns avg_size 12,
\* heading_threshold 14, large_heading_threshold 16 without raising, and
\* extract_pdf_structure completes with no error field in its result.
C9_DefaultsWithoutSpans ==
    NoSampledSpan =>
        /\ pc # "raised"
        /\ font_stats # NoValue =>
              /\ DOMAIN font_stats = {"avg_size", "heading_threshold", "large_heading_threshold"}
              /\ font_stats.avg_size = [num |-> 12, den |-> 1]
              /\ font_stats.heading_threshold = [num |-> 14, den |-> 1]
              /\ font_stats.large_heading_threshold = [num |-> 16, den |-> 1]
        /\ pc \notin {"open", "profile"} /\ NoDecoderFault => font_stats # NoValue
        /\ Returned /\ NoDecoderFault =>
              /\ "error" \notin DOMAIN ret.processing_info
              /\ ret.metadata.pageCount = Len(doc.pages)

\* five sampled pages without a span, then a page with text: the text is classified
\* against the defaults and the result has no error
C9_Witness ==
    /\ NoSampledSpan /\ Returned /\ NoDecoderFault
    /\ Len(doc.pages) > 5
    /\ font_stats.avg_size = [num |-> 12, den |-> 1]
    /\ \E n \in 1..Len(ret.structure.sections) :
          ret.structure.sections[n].type = "paragraph" /\ ret.structure.sections[n].page > 5
    /\ "error" \notin DOMAIN ret.processing_info

\* a document of no pages: the defaults, and a result with no error
C9_WitnessNoPages ==
    /\ NoSampledSpan /\ Returned /\ NoDecoderFault
    /\ Len(doc.pages) = 0
    /\ "error" \notin DOMAIN ret.processing_info

----------------------------------------------------------------------------
(* Claims on process_pdfs and process_single_pdf, under Spec *)

BatchDone == mode = "batch" /\ main = "done"

\* the documents whose serialization succeeds
Writable == {d \in 1..NumDocs : pdf_files[d].write = "ok"}

\* the process_single_pdf calls in progress
InProgress(d) ==
    \/ (d <= Len(futures) /\ futures[d].st \in {"running", "doomed"})
    \/ (seq_task.doc = d /\ seq_task.at \in {"extract", "open", "dump"})

\* C4 as stated: a batch over N >= 0 documents ends with exactly N outcomes: each
\* document has exactly one outcome, a written artifact or a logged failure; with
\* N = 0 it returns and writes nothing.
C4_OneOutcomePerDocument ==
    BatchDone =>
        /\ \A d \in 1..NumDocs : outcomes[d].ok + outcomes[d].failed = 1
        /\ NumDocs = 0 => files = <<>> /\ report = NoValue

\* C5 as stated: a run in which the pool fails and the sequential loop is taken ends
\* with the success tally of a run without the pool failure, which is the number of
\* documents whose processing succeeds.
C5_FallbackSameTally ==
    BatchDone /\ NumDocs > 0 => success_count = Cardinality(Writable)

\* C6 as stated: <stem>.json is never partially written: once no process_single_pdf
\* call is in progress on a document, its file does not exist or holds the complete
\* serialized result.
C6_NoPartialArtifact ==
    mode = "batch" =>
        \A d \in 1..NumDocs : ~InProgress(d) /\ pool # "broken" => files[d] \in {-1, Chunks}

\* C7: in the pooled path the worker count is min(4, cpu count), at least 1, and at
\* most that many process_single_pdf calls are in progress in the pool at any moment.
C7_BoundedWorkers ==
    (mode = "batch" /\ main \notin {"start", "done", "single"}) =>
        /\ max_workers >= 1 /\ max_workers <= 4
        /\ cpu_count >= 1 => max_workers = (IF cpu_count < 4 THEN cpu_count ELSE 4)
        /\ cpu_count = 0 => max_workers = 1
        /\ Cardinality(Running) <= max_workers
        /\ Cardinality({d \in 1..NumDocs : InProgress(d)}) <= max_workers

\* one worker, two documents submitted: one runs while the other waits in the queue
C7_Witness ==
    /\ mode = "batch" /\ pool = "open"
    /\ cpu_count = 1 /\ max_workers = 1
    /\ Len(futures) = 2
    /\ futures[1].st = "running" /\ futures[2].st = "pending"

\* C12 as stated: in every state of process_pdfs, and in the final report,
\* 0 <= success_count <= number of discovered documents, also when the sequential
\* loop runs after some futures' results were tallied.
C12_TallyWithinTotal ==
    mode = "batch" =>
        /\ success_count >= 0 /\ success_count <= NumDocs
        /\ report # NoValue =>
              /\ report.successes >= 0
              /\ report.successes <= report.total
              /\ report.total = NumDocs

\* a process_single_pdf call on document d is in progress in a pool worker
InPool(d) == d <= Len(futures) /\ futures[d].st \in {"running", "doomed"}

\* a process_single_pdf call on document d is in progress in the main process
InMain(d) == seq_task.doc = d /\ seq_task.at \in {"extract", "open", "dump"}

\* C13: the sequential loop starts only after every task submitted to the pool has
\* finished or has been stopped, so no document ever has two process_single_pdf
\* calls in progress at once, and the report is logged only after all calls ended.
C13_FallbackAfterPool ==
    mode = "batch" =>
        /\ main = "fallback" => Unfinished = {}
        /\ \A d \in 1..NumDocs : ~(InPool(d) /\ InMain(d))
        /\ main \in {"report", "done"} => \A d \in 1..NumDocs : ~InProgress(d)
        /\ report # NoValue => \A d \in 1..NumDocs : ~InProgress(d)

\* the sequential loop is writing the file of document 1, whose pool task had been
\* stopped in the middle of its own write when the pool broke
C13_Witness ==
    /\ mode = "batch" /\ main = "fallback"
    /\ NumDocs = 2 /\ Len(futures) = 2
    /\ futures[1].st = "broken" /\ futures[1].at = "dump"
    /\ futures[2].st = "broken"
    /\ seq_task = [at |-> "dump", doc |-> 1]

====
